---- MODULE Spec2Model ----
(***************************************************************************)
(* A model of MPCFilteredReader (mpc_filtered_reader.py): the filter       *)
(* configuration held by one reader, its setters, the single-line          *)
(* parser/filter parse_and_filter_line, and the two file-level loops       *)
(* read_file and filter_file.                                              *)
(*                                                                         *)
(* Representation.                                                         *)
(*   - A line is a sequence of one-character strings, so that the Python   *)
(*     slices line[a:b], the index line[67] and len(line) keep their       *)
(*     meaning.                                                            *)
(*   - None is the empty tuple <<>>; a value v that is set is <<v>>.       *)
(*   - Real numbers are exact fixed-point integers: a time is the pair     *)
(*     <<whole days, 1e-5 days>> of its MJD value, a right ascension is in *)
(*     units of 1/360000 hour, a declination in units of 1/360000 degree,  *)
(*     a magnitude in units of 1/100.  Floating-point rounding is not      *)
(*     modelled.                                                           *)
(*   - A raised exception is recorded by its name in call.raised.          *)
(***************************************************************************)
EXTENDS Integers, Sequences, FiniteSets, TLC

VARIABLES _name, _obscode, _time_range, _ra_range, _dec_range, _mag_range, call

vars == <<_name, _obscode, _time_range, _ra_range, _dec_range, _mag_range, call>>

----------------------------------------------------------------------------
(* Python values *)

None == <<>>

Some(v) == <<v>>

\* bool(x) of an attribute that holds None, a str or a tuple: None and the
\* empty string are false, every (start, end) pair is true.
Truthy(opt) == opt # None /\ opt[1] # <<>>

\* s[a:b] for 0 <= a <= b
Slice(s, a, b) == SubSeq(s, a + 1, IF b < Len(s) THEN b ELSE Len(s))

Whitespace == {" ", "\n"}

Digits == {"0", "1", "2", "3", "4", "5", "6", "7", "8", "9"}

DigitVal(c) ==
  CASE c = "0" -> 0 [] c = "1" -> 1 [] c = "2" -> 2 [] c = "3" -> 3
    [] c = "4" -> 4 [] c = "5" -> 5 [] c = "6" -> 6 [] c = "7" -> 7
    [] c = "8" -> 8 [] c = "9" -> 9

AllDigits(s) == \A i \in 1..Len(s) : s[i] \in Digits

RECURSIVE Num(_)
\* int(s) of a string of decimal digits ("" counts as 0)
Num(s) == IF s = <<>> THEN 0 ELSE 10 * Num(SubSeq(s, 1, Len(s) - 1)) + DigitVal(s[Len(s)])

RECURSIVE Pow10(_)
Pow10(n) == IF n = 0 THEN 1 ELSE 10 * Pow10(n - 1)

RECURSIVE LStrip(_)
LStrip(s) == IF s # <<>> /\ s[1] \in Whitespace THEN LStrip(Tail(s)) ELSE s

RECURSIVE RStrip(_)
RStrip(s) ==
  IF s # <<>> /\ s[Len(s)] \in Whitespace THEN RStrip(SubSeq(s, 1, Len(s) - 1)) ELSE s

\* str.strip()
Strip(s) == RStrip(LStrip(s))

\* The index of the first "." of s, or Len(s) + 1
DotPos(s) ==
  IF \E i \in 1..Len(s) : s[i] = "."
    THEN CHOOSE i \in 1..Len(s) : s[i] = "." /\ \A j \in 1..(i - 1) : s[j] # "."
    ELSE Len(s) + 1

Sign(t) == IF t # <<>> /\ t[1] = "-" THEN -1 ELSE 1

Unsigned(t) == IF t # <<>> /\ t[1] \in {"+", "-"} THEN Tail(t) ELSE t

\* The digits ip before and fp after the decimal point, as
\* sgn * ip.fp * 10^scale; no number unless both are digits and one is there
Decimal(sgn, ip, fp, scale) ==
  IF AllDigits(ip) /\ AllDigits(fp) /\ Len(ip) + Len(fp) > 0 /\ Len(fp) <= scale
    THEN [ok |-> TRUE, val |-> sgn * (Num(ip) * Pow10(scale) + Num(fp) * Pow10(scale - Len(fp)))]
    ELSE [ok |-> FALSE, val |-> 0]

SplitDecimal(sgn, body, p, scale) ==
  Decimal(sgn, SubSeq(body, 1, p - 1), SubSeq(body, p + 1, Len(body)), scale)

FloatOfStripped(t, scale) == SplitDecimal(Sign(t), Unsigned(t), DotPos(Unsigned(t)), scale)

\* float(s) for the decimal notation [sign] digits [. digits] (surrounding
\* whitespace allowed, at least one digit), as value * 10^scale; any other text
\* raises ValueError (ok = FALSE).  Exponents, "inf", "nan" and "_" do not occur
\* in the alphabet of the modelled lines.
PyFloat(s, scale) == FloatOfStripped(Strip(s), scale)

----------------------------------------------------------------------------
(* astropy.time.Time and astropy.coordinates.SkyCoord, as far as the reader *)
(* uses them                                                                *)

FracScale == 5

Day == 100000

IsLeap(y) == (y % 4 = 0 /\ y % 100 # 0) \/ y % 400 = 0

DaysInMonth(y, m) ==
  IF m = 2 THEN (IF IsLeap(y) THEN 29 ELSE 28)
  ELSE IF m \in {4, 6, 9, 11} THEN 30 ELSE 31

\* Time('Y-M-D').mjd: the Modified Julian Date of a Gregorian calendar date
MJD(y, m, d) ==
  LET a  == (14 - m) \div 12
      yy == y + 4800 - a
      mm == m + 12 * a - 3
  IN  d + (153 * mm + 2) \div 5 + 365 * yy + yy \div 4 - yy \div 100 + yy \div 400
        - 32045 - 2400001

IsDate(y, m, d) ==
  /\ Len(y) = 4 /\ Len(m) = 2 /\ Len(d) = 2
  /\ AllDigits(y) /\ AllDigits(m) /\ AllDigits(d)
  /\ Num(m) \in 1..12
  /\ Num(d) >= 1 /\ Num(d) <= DaysInMonth(Num(y), Num(m))

\* Time('%s-%s-%s' % (y, m, d)): an ISO date of four, two and two digits that
\* is a calendar date; anything else raises ValueError (ok = FALSE).
TimeOf(y, m, d) ==
  IF IsDate(y, m, d) THEN [ok |-> TRUE, mjd |-> MJD(Num(y), Num(m), Num(d))]
                     ELSE [ok |-> FALSE, mjd |-> 0]

\* A time value: <<whole days, 1e-5 days>> with 0 <= 1e-5 days < Day
TimeVal(days, frac) == <<days + frac \div Day, frac % Day>>

TimeLess(a, b) == a[1] < b[1] \/ (a[1] = b[1] /\ a[2] < b[2])

\* bool(t) of a float: 0.0 is false
TimeTruthy(t) == t # <<0, 0>>

RaScale == 360000

\* sgn * (DD + MM/60 + SS.ss/3600) of the text body = "DD MM SS[.ss]", where sec
\* is float() of its seconds
AngleOf(sgn, body, sec) ==
  IF /\ Len(body) >= 7
     /\ AllDigits(SubSeq(body, 1, 2)) /\ body[3] = " "
     /\ AllDigits(SubSeq(body, 4, 5)) /\ body[6] = " "
     /\ body[7] \in Digits
     /\ sec.ok
     /\ Num(SubSeq(body, 4, 5)) <= 60 /\ sec.val <= 6000
    THEN [ok |-> TRUE,
          val |-> sgn * (Num(SubSeq(body, 1, 2)) * RaScale
                         + Num(SubSeq(body, 4, 5)) * 6000 + sec.val)]
    ELSE [ok |-> FALSE, val |-> 0]

SexagesimalOfBody(sgn, body) == AngleOf(sgn, body, PyFloat(SubSeq(body, 7, Len(body)), 2))

SexagesimalOfStripped(t) == SexagesimalOfBody(Sign(t), Unsigned(t))

\* An angle given as "[sign]DD MM SS[.ss]" (surrounding whitespace allowed), in
\* units of 1/360000 of its unit; a minute or second above 60, or any other
\* text, raises ValueError (ok = FALSE).
Sexagesimal(s) == SexagesimalOfStripped(Strip(s))

\* The coordinate of a right ascension r and a declination d
SkyCoordOf(r, d) ==
  IF r.ok /\ d.ok /\ d.val >= -90 * RaScale /\ d.val <= 90 * RaScale
    THEN [ok |-> TRUE, ra |-> r.val % (24 * RaScale), dec |-> d.val]
    ELSE [ok |-> FALSE, ra |-> 0, dec |-> 0]

\* SkyCoord(ra, dec, unit=(u.hourangle, u.deg)): the right ascension wraps
\* into [0, 24) hours, a declination outside [-90, 90] degrees raises
\* ValueError, as does text that is not an angle.
SkyCoord(ra, dec) == SkyCoordOf(Sexagesimal(ra), Sexagesimal(dec))

----------------------------------------------------------------------------
(* MPCFilteredReader: the setters *)

\* The reader object, as the methods read it
Reader ==
  [_name |-> _name, _obscode |-> _obscode, _time_range |-> _time_range,
   _ra_range |-> _ra_range, _dec_range |-> _dec_range, _mag_range |-> _mag_range]

\* What a call leaves behind: the operation, its argument, the exception it
\* raised ("" when it returned), its return value, and for
\* parse_and_filter_line the blocks of the function that ran.
Call(op, arg, raised, ret, steps) ==
  [op |-> op, arg |-> arg, raised |-> raised, ret |-> ret, steps |-> steps]

\* raise IllegalArgumentError(...): the name is bound nowhere in the module, so
\* evaluating it raises NameError.
IllegalArgumentError == "NameError"

set_name(name) ==
  /\ _name' = name
  /\ call' = Call("set_name", name, "", None, <<>>)
  /\ UNCHANGED <<_obscode, _time_range, _ra_range, _dec_range, _mag_range>>

\* set_obscode as a copy of set_name that still assigns _name as well
set_obscode_clobbers_name(obscode) ==
  /\ _obscode' = obscode
  /\ _name' = obscode
  /\ call' = Call("set_obscode", obscode, "", None, <<>>)
  /\ UNCHANGED <<_time_range, _ra_range, _dec_range, _mag_range>>

set_obscode(obscode) ==
  /\ _obscode' = obscode
  /\ call' = Call("set_obscode", obscode, "", None, <<>>)
  /\ UNCHANGED <<_name, _time_range, _ra_range, _dec_range, _mag_range>>

set_time_range(start_time, end_time) ==
  IF TimeLess(end_time, start_time)
    THEN /\ call' = Call("set_time_range", <<start_time, end_time>>, IllegalArgumentError, None, <<>>)
         /\ UNCHANGED <<_name, _obscode, _time_range, _ra_range, _dec_range, _mag_range>>
    ELSE /\ _time_range' = Some(<<start_time, end_time>>)
         /\ call' = Call("set_time_range", <<start_time, end_time>>, "", None, <<>>)
         /\ UNCHANGED <<_name, _obscode, _ra_range, _dec_range, _mag_range>>

\* set_skycoords_range assigning _ra_range before it checks the Dec pair
set_skycoords_range_partial(ra_min, ra_max, dec_min, dec_max) ==
  IF ra_min > ra_max
    THEN /\ call' = Call("set_skycoords_range", <<ra_min, ra_max, dec_min, dec_max>>,
                         IllegalArgumentError, None, <<>>)
         /\ UNCHANGED <<_name, _obscode, _time_range, _ra_range, _dec_range, _mag_range>>
  ELSE IF dec_min > dec_max
    THEN /\ _ra_range' = Some(<<ra_min, ra_max>>)
         /\ call' = Call("set_skycoords_range", <<ra_min, ra_max, dec_min, dec_max>>,
                         IllegalArgumentError, None, <<>>)
         /\ UNCHANGED <<_name, _obscode, _time_range, _dec_range, _mag_range>>
  ELSE /\ _ra_range' = Some(<<ra_min, ra_max>>)
       /\ _dec_range' = Some(<<dec_min, dec_max>>)
       /\ call' = Call("set_skycoords_range", <<ra_min, ra_max, dec_min, dec_max>>, "", None, <<>>)
       /\ UNCHANGED <<_name, _obscode, _time_range, _mag_range>>

set_skycoords_range(ra_min, ra_max, dec_min, dec_max) ==
  IF ra_min > ra_max \/ dec_min > dec_max
    THEN /\ call' = Call("set_skycoords_range", <<ra_min, ra_max, dec_min, dec_max>>,
                         IllegalArgumentError, None, <<>>)
         /\ UNCHANGED <<_name, _obscode, _time_range, _ra_range, _dec_range, _mag_range>>
    ELSE /\ _ra_range' = Some(<<ra_min, ra_max>>)
         /\ _dec_range' = Some(<<dec_min, dec_max>>)
         /\ call' = Call("set_skycoords_range", <<ra_min, ra_max, dec_min, dec_max>>, "", None, <<>>)
         /\ UNCHANGED <<_name, _obscode, _time_range, _mag_range>>

set_magnitude_range(start, end) ==
  IF start > end
    THEN /\ call' = Call("set_magnitude_range", <<start, end>>, IllegalArgumentError, None, <<>>)
         /\ UNCHANGED <<_name, _obscode, _time_range, _ra_range, _dec_range, _mag_range>>
    ELSE /\ _mag_range' = Some(<<start, end>>)
         /\ call' = Call("set_magnitude_range", <<start, end>>, "", None, <<>>)
         /\ UNCHANGED <<_name, _obscode, _time_range, _ra_range, _dec_range>>

----------------------------------------------------------------------------
(* MPCFilteredReader.parse_and_filter_line                                  *)
(*                                                                          *)
(* The function body is a sequence of five blocks over the locals filtered, *)
(* coord and time.  A block maps the locals before it to the locals after   *)
(* it; raised # "" means an exception left the function in an earlier       *)
(* block, and steps lists the blocks whose filter code ran.                 *)

Locals(filtered, coord, time, raised, steps) ==
  [filtered |-> filtered, coord |-> coord, time |-> time, raised |-> raised, steps |-> steps]

\* The time filter with exclusive bounds
time_filter_exclusive(self, time) ==
  IF /\ Truthy(self._time_range)
     /\ \/ ~TimeLess(self._time_range[1][1], time)
        \/ ~TimeLess(time, self._time_range[1][2])
    THEN Locals(TRUE, None, None, "", <<"time">>)
    ELSE Locals(FALSE, None, Some(time), "", <<"time">>)

\* Lines 97-100: the time filter on the decoded time
time_filter(self, time) ==
  IF /\ Truthy(self._time_range)
     /\ \/ TimeLess(time, self._time_range[1][1])
        \/ TimeLess(self._time_range[1][2], time)
    THEN Locals(TRUE, None, None, "", <<"time">>)
    ELSE Locals(FALSE, None, Some(time), "", <<"time">>)

\* The time step catching the ValueError and filtering the line, as the
\* coordinate step does
time_decoded_caught(self, t, f) ==
  IF ~t.ok \/ ~f.ok
    THEN Locals(TRUE, None, None, "", <<"time">>)
    ELSE time_filter(self, TimeVal(t.mjd, f.val))

\* Lines 95-96: Time(...) and float(...) raise ValueError on text they cannot
\* decode
time_decoded(self, t, f) ==
  IF ~t.ok \/ ~f.ok
    THEN Locals(FALSE, None, None, "ValueError", <<"time">>)
    ELSE time_filter(self, TimeVal(t.mjd, f.val))

\* Lines 92-100: decode the time, then the time filter
time_block(self, line) ==
  time_decoded(self, TimeOf(Slice(line, 15, 19), Slice(line, 20, 22), Slice(line, 23, 25)),
               PyFloat(Slice(line, 25, 31), FracScale))

\* Lines 110-118: the RA and Dec filters on the decoded coordinate c
coord_filter(self, st, c) ==
  IF c.ok
    THEN Locals(\/ /\ Truthy(self._ra_range)
                   /\ (c.ra < self._ra_range[1][1] \/ c.ra > self._ra_range[1][2])
                \/ /\ Truthy(self._dec_range)
                   /\ (c.dec < self._dec_range[1][1] \/ c.dec > self._dec_range[1][2]),
                Some(<<c.ra, c.dec>>), st.time, "", Append(st.steps, "coord"))
    ELSE Locals(TRUE, None, st.time, "", Append(st.steps, "coord"))

\* Lines 102-118: decode the coordinate, then the RA and Dec filters
coord_block(self, line, st) ==
  IF st.raised # "" \/ st.filtered THEN st
  ELSE coord_filter(self, st, SkyCoord(Slice(line, 32, 44), Slice(line, 44, 56)))

\* Lines 120-123: the name filter
name_block(self, line, st) ==
  IF st.raised # "" \/ st.filtered \/ ~Truthy(self._name) THEN st
  ELSE Locals(self._name[1] # Strip(Slice(line, 0, 12)), st.coord, st.time, "",
              Append(st.steps, "name"))

\* The obscode filter comparing the code only when the line is long enough
obscode_block_skips_short(self, line, st) ==
  IF st.raised # "" \/ st.filtered \/ ~Truthy(self._obscode) THEN st
  ELSE Locals(Len(line) >= 80 /\ Slice(line, 77, 80) # self._obscode[1], st.coord, st.time, "",
              Append(st.steps, "obscode"))

\* Lines 125-130: the obscode filter
obscode_block(self, line, st) ==
  IF st.raised # "" \/ st.filtered \/ ~Truthy(self._obscode) THEN st
  ELSE Locals(Len(line) < 80 \/ Slice(line, 77, 80) # self._obscode[1], st.coord, st.time, "",
              Append(st.steps, "obscode"))

\* The magnitude filter checking the lower bound only
mag_filter_lower_only(self, st, mag) ==
  IF ~mag.ok
    THEN Locals(FALSE, st.coord, st.time, "ValueError", st.steps \o <<"mag", "float">>)
    ELSE Locals(mag.val < self._mag_range[1][1],
                st.coord, st.time, "", st.steps \o <<"mag", "float">>)

\* Lines 137-139: the magnitude filter on mag = float(line[65:70]), which
\* raises ValueError on text that is no number
mag_filter(self, st, mag) ==
  IF ~mag.ok
    THEN Locals(FALSE, st.coord, st.time, "ValueError", st.steps \o <<"mag", "float">>)
    ELSE Locals(mag.val < self._mag_range[1][1] \/ mag.val > self._mag_range[1][2],
                st.coord, st.time, "", st.steps \o <<"mag", "float">>)

\* The magnitude block without the `not filtered` guard
mag_block_unguarded(self, line, st) ==
  IF st.raised # "" \/ ~Truthy(self._mag_range) THEN st
  ELSE IF Len(line) <= 67
    THEN Locals(FALSE, st.coord, st.time, "IndexError", Append(st.steps, "mag"))
  ELSE IF line[68] # "."
    THEN Locals(TRUE, st.coord, st.time, "", Append(st.steps, "mag"))
  ELSE IF ~PyFloat(Slice(line, 65, 70), 2).ok
    THEN Locals(FALSE, st.coord, st.time, "ValueError", st.steps \o <<"mag", "float">>)
  ELSE Locals(\/ st.filtered
              \/ PyFloat(Slice(line, 65, 70), 2).val < self._mag_range[1][1]
              \/ PyFloat(Slice(line, 65, 70), 2).val > self._mag_range[1][2],
              st.coord, st.time, "", st.steps \o <<"mag", "float">>)

\* Lines 132-139: the magnitude filter.  line[67] of a line of at most 67
\* characters raises IndexError.
mag_block(self, line, st) ==
  IF st.raised # "" \/ st.filtered \/ ~Truthy(self._mag_range) THEN st
  ELSE IF Len(line) <= 67
    THEN Locals(FALSE, st.coord, st.time, "IndexError", Append(st.steps, "mag"))
  ELSE IF line[68] # "."
    THEN Locals(TRUE, st.coord, st.time, "", Append(st.steps, "mag"))
  ELSE mag_filter(self, st, PyFloat(Slice(line, 65, 70), 2))

Rejection == <<None, None>>

\* Lines 141-143: return None, None if filtered, else coord, time
return(st) ==
  [raised |-> st.raised,
   ret    |-> IF st.raised # "" THEN None
              ELSE IF st.filtered THEN Rejection
              ELSE <<st.coord, st.time>>,
   steps  |-> st.steps]

\* Lines 92-143: what the call raises, returns and ran
parse_and_filter_line(self, line) ==
  return(mag_block(self, line,
           obscode_block(self, line,
             name_block(self, line,
               coord_block(self, line,
                 time_block(self, line))))))

\* The call, as a step of the reader: the call is recorded, no attribute changes
ParseCall(line, r) ==
  /\ call' = Call("parse_and_filter_line", line, r.raised, r.ret, r.steps)
  /\ UNCHANGED <<_name, _obscode, _time_range, _ra_range, _dec_range, _mag_range>>

ParseAndFilterLine(line) == ParseCall(line, parse_and_filter_line(Reader, line))

----------------------------------------------------------------------------
(* Lines *)

\* '     Hall2    C1999 06 05.03484 17 47 47.64 -25 27 24.3          16.6 R      706'
LineHall2 ==
  <<" ", " ", " ", " ", " ", "H", "a", "l", "l", "2", " ", " ", " ", " ", "C", "1",
    "9", "9", "9", " ", "0", "6", " ", "0", "5", ".", "0", "3", "4", "8", "4", " ",
    "1", "7", " ", "4", "7", " ", "4", "7", ".", "6", "4", " ", "-", "2", "5", " ",
    "2", "7", " ", "2", "4", ".", "3", " ", " ", " ", " ", " ", " ", " ", " ", " ",
    " ", "1", "6", ".", "6", " ", "R", " ", " ", " ", " ", " ", " ", "7", "0", "6">>

\* '     She001  2C1995 09 14.79817 23 29 42.54 -02 59 15.9          15.5 V      121'
LineShe001 ==
  <<" ", " ", " ", " ", " ", "S", "h", "e", "0", "0", "1", " ", " ", "2", "C", "1",
    "9", "9", "5", " ", "0", "9", " ", "1", "4", ".", "7", "9", "8", "1", "7", " ",
    "2", "3", " ", "2", "9", " ", "4", "2", ".", "5", "4", " ", "-", "0", "2", " ",
    "5", "9", " ", "1", "5", ".", "9", " ", " ", " ", " ", " ", " ", " ", " ", " ",
    " ", "1", "5", ".", "5", " ", "V", " ", " ", " ", " ", " ", " ", "1", "2", "1">>

\* '     0000001  C2002 10 10.28966 01 45 43.18 +08 05 24.4                r     644'
LineObs0000001 ==
  <<" ", " ", " ", " ", " ", "0", "0", "0", "0", "0", "0", "1", " ", " ", "C", "2",
    "0", "0", "2", " ", "1", "0", " ", "1", "0", ".", "2", "8", "9", "6", "6", " ",
    "0", "1", " ", "4", "5", " ", "4", "3", ".", "1", "8", " ", "+", "0", "8", " ",
    "0", "5", " ", "2", "4", ".", "4", " ", " ", " ", " ", " ", " ", " ", " ", " ",
    " ", " ", " ", " ", " ", " ", " ", "r", " ", " ", " ", " ", " ", "6", "4", "4">>

\* '     000007k ZC2009 07 12.38821 20 52 22.26 -16 47 54.1                r     I41'
LineObs000007k ==
  <<" ", " ", " ", " ", " ", "0", "0", "0", "0", "0", "7", "k", " ", "Z", "C", "2",
    "0", "0", "9", " ", "0", "7", " ", "1", "2", ".", "3", "8", "8", "2", "1", " ",
    "2", "0", " ", "5", "2", " ", "2", "2", ".", "2", "6", " ", "-", "1", "6", " ",
    "4", "7", " ", "5", "4", ".", "1", " ", " ", " ", " ", " ", " ", " ", " ", " ",
    " ", " ", " ", " ", " ", " ", " ", "r", " ", " ", " ", " ", " ", "I", "4", "1">>

\* '     00000m3 ZC2009 07 22.38815 20 45 14.31 -17 34 51.4          21.8 Rr     I41'
LineObs00000m3 ==
  <<" ", " ", " ", " ", " ", "0", "0", "0", "0", "0", "m", "3", " ", "Z", "C", "2",
    "0", "0", "9", " ", "0", "7", " ", "2", "2", ".", "3", "8", "8", "1", "5", " ",
    "2", "0", " ", "4", "5", " ", "1", "4", ".", "3", "1", " ", "-", "1", "7", " ",
    "3", "4", " ", "5", "1", ".", "4", " ", " ", " ", " ", " ", " ", " ", " ", " ",
    " ", "2", "1", ".", "8", " ", "R", "r", " ", " ", " ", " ", " ", "I", "4", "1">>

Corpus == <<LineHall2, LineShe001, LineObs0000001, LineObs000007k, LineObs00000m3>>

\* A line of the 80-column layout from its fields: designation [0:12], date
\* and day fraction [15:31], RA [32:44], Dec [44:56], magnitude [65:70] and
\* observatory code [77:80]; the columns between them as in the first corpus
\* line.
MakeLine(name, date, ra, dec, mag, obs) ==
  name \o SubSeq(LineHall2, 13, 15) \o date \o SubSeq(LineHall2, 32, 32) \o ra \o dec
       \o SubSeq(LineHall2, 57, 65) \o mag \o SubSeq(LineHall2, 71, 77) \o obs

NameHall2 == SubSeq(LineHall2, 1, 12)

NameBlank == [i \in 1..12 |-> " "]

DateGood == SubSeq(LineHall2, 16, 31)

\* '1858 11 17.00000': MJD 0.0
DateEpoch == <<"1","8","5","8"," ","1","1"," ","1","7",".","0","0","0","0","0">>

\* '1999 02 30.03484': no such day
DateNoDay == <<"1","9","9","9"," ","0","2"," ","3","0",".","0","3","4","8","4">>

\* '1999 0x 05.03484': the month is no number
DateNoMonth == <<"1","9","9","9"," ","0","x"," ","0","5",".","0","3","4","8","4">>

\* '1999 06 05.0x484': the day fraction is no number
DateNoFrac == <<"1","9","9","9"," ","0","6"," ","0","5",".","0","x","4","8","4">>

RaInside == SubSeq(LineHall2, 33, 44)

DecInside == SubSeq(LineHall2, 45, 56)

\* '17 00 00.00 ': 17 h
RaLow == <<"1","7"," ","0","0"," ","0","0",".","0","0"," ">>

\* '-25 30 00.0 ': -25.5 deg
DecLow == <<"-","2","5"," ","3","0"," ","0","0",".","0"," ">>

\* '21 00 00.00 ': 21 h
RaHigh == <<"2","1"," ","0","0"," ","0","0",".","0","0"," ">>

\* '-15 00 00.0 ': -15 deg
DecHigh == <<"-","1","5"," ","0","0"," ","0","0",".","0"," ">>

\* '17 xx 47.64 ': no angle
RaBad == <<"1","7"," ","x","x"," ","4","7",".","6","4"," ">>

MagInside == SubSeq(LineHall2, 66, 70)

MagAbsent == [i \in 1..5 |-> " "]

\* '1x.6 ': the decimal point is in place, the text is no number
MagBad == <<"1","x",".","6"," ">>

\* '14.0 '
MagLow == <<"1","4",".","0"," ">>

\* '18.0 '
MagHigh == <<"1","8",".","0"," ">>

Obs706 == SubSeq(LineHall2, 78, 80)

ObsI41 == SubSeq(LineObs000007k, 78, 80)

\* The first corpus line with its fields replaced
Base(date, ra, dec, mag) == MakeLine(NameHall2, date, ra, dec, mag, Obs706)

\* Complete 80-column lines.  With a magnitude text that is no number: every
\* combination of a matching or blank designation, a date inside or before the
\* time window, a coordinate that decodes or not, and two observatory codes.
\* With a magnitude that is a number or blank: the first corpus line, that
\* line with its date replaced, with coordinate and magnitude on the lower or
\* on the upper bounds of the windows, with a coordinate that does not decode,
\* and with a blank magnitude.
FullLines ==
  {MakeLine(n, d, ra, DecInside, MagBad, o) :
     n \in {NameHall2, NameBlank}, d \in {DateGood, DateEpoch},
     ra \in {RaInside, RaBad}, o \in {Obs706, ObsI41}}
  \cup {Base(d, RaInside, DecInside, MagInside) :
          d \in {DateGood, DateEpoch, DateNoDay, DateNoMonth, DateNoFrac}}
  \cup {Base(DateGood, RaLow, DecLow, MagLow), Base(DateGood, RaHigh, DecHigh, MagHigh),
        Base(DateGood, RaBad, DecInside, MagInside), Base(DateGood, RaInside, DecInside, MagAbsent)}

\* Lines cut short: before the observatory code is complete (79), right after
\* and right before the decimal point of the magnitude (68, 67), inside the day
\* fraction (28) and right before it (25).
ShortLines ==
  {SubSeq(Base(DateGood, RaInside, DecInside, m), 1, n) :
     m \in {MagInside, MagAbsent, MagBad}, n \in {79, 68, 67}}
  \cup {SubSeq(Base(d, RaInside, DecInside, MagInside), 1, n) :
          d \in {DateGood, DateNoMonth}, n \in {28, 25}}

Lines == FullLines \cup ShortLines

----------------------------------------------------------------------------
(* Arguments of the setters *)

HALL2 == Strip(NameHall2)

NameArgs == {None, Some(<<>>), Some(HALL2)}

ObscodeArgs == {None, Some(<<>>), Some(Obs706)}

\* The time of the first corpus line, and the midnight after it
TimeGood == <<51334, 3484>>

TimeNext == <<51335, 0>>

TimeArgs == {<<TimeGood, TimeGood>>, <<TimeGood, TimeNext>>, <<TimeNext, TimeGood>>}

\* 17 h and 21 h
RaMin == 17 * RaScale

RaMax == 21 * RaScale

\* -25.5 deg and -15 deg
DecMin == -51 * (RaScale \div 2)

DecMax == -15 * RaScale

\* (ra_min, ra_max, dec_min, dec_max): the window, the window with one axis
\* narrowed to its lower bound, and the window with one axis inverted
SkyArgs ==
  {<<RaMin, RaMax, DecMin, DecMax>>, <<RaMin, RaMin, DecMin, DecMax>>,
   <<RaMin, RaMax, DecMin, DecMin>>, <<RaMax, RaMin, DecMin, DecMax>>,
   <<RaMin, RaMax, DecMax, DecMin>>}

\* 14.0 and 18.0
MagMin == 14 * 100

MagMax == 18 * 100

MagArgs == {<<MagMin, MagMax>>, <<MagMin, MagMin>>, <<MagMax, MagMin>>}

----------------------------------------------------------------------------
(* The reader driven by any sequence of setter calls and single-line calls *)

Init ==
  /\ _name = None
  /\ _obscode = None
  /\ _time_range = None
  /\ _ra_range = None
  /\ _dec_range = None
  /\ _mag_range = None
  /\ call = Call("__init__", None, "", None, <<>>)

SetName == \E name \in NameArgs : set_name(name)

SetObscode == \E obscode \in ObscodeArgs : set_obscode(obscode)

SetTimeRange == \E t \in TimeArgs : set_time_range(t[1], t[2])

SetSkycoordsRange == \E a \in SkyArgs : set_skycoords_range(a[1], a[2], a[3], a[4])

SetMagnitudeRange == \E m \in MagArgs : set_magnitude_range(m[1], m[2])

Setters == SetName \/ SetObscode \/ SetTimeRange \/ SetSkycoordsRange \/ SetMagnitudeRange

Next == Setters \/ \E line \in Lines : ParseAndFilterLine(line)

Spec == Init /\ [][Next]_vars

----------------------------------------------------------------------------
(* MPCFilteredReader.read_file and filter_file.  A file is the sequence of  *)
(* its lines, each ending in a newline.                                     *)

\* `if coord and time`: a SkyCoord is true, None and the float 0.0 are false
coord_and_time(ret) == ret[1] # None /\ ret[2] # None /\ TimeTruthy(ret[2][1])

RECURSIVE filter_lines(_, _, _)

\* Lines 191-193: an exception of parse_and_filter_line ends the loop, an
\* accepted line is written
filter_line(self, lines, out, r) ==
  IF r.raised # "" THEN [raised |-> r.raised, ret |-> out]
  ELSE filter_lines(self, Tail(lines),
                    IF coord_and_time(r.ret) THEN Append(out, Head(lines)) ELSE out)

\* Lines 190-193: the loop over the lines left; out is what was written
filter_lines(self, lines, out) ==
  IF lines = <<>> THEN [raised |-> "", ret |-> out]
  ELSE filter_line(self, lines, out, parse_and_filter_line(self, Head(lines)))

\* Lines 188-193: the content of out_file when the call ends
filter_file(self, in_file) == filter_lines(self, in_file, <<>>)

RECURSIVE read_lines(_, _, _)

\* Lines 168-171
read_line(self, lines, pairs, r) ==
  IF r.raised # "" THEN [raised |-> r.raised, ret |-> None]
  ELSE read_lines(self, Tail(lines),
                  IF coord_and_time(r.ret) THEN Append(pairs, r.ret) ELSE pairs)

\* Lines 167-172: the loop over the lines left; pairs holds coords[i], times[i]
read_lines(self, lines, pairs) ==
  IF lines = <<>> THEN [raised |-> "", ret |-> pairs]
  ELSE read_line(self, lines, pairs, parse_and_filter_line(self, Head(lines)))

\* Lines 163-172: the (coord, time) pairs returned
read_file(self, filename) == read_lines(self, filename, <<>>)

FileCall(op, file, r) ==
  /\ call' = Call(op, file, r.raised, r.ret, <<>>)
  /\ UNCHANGED <<_name, _obscode, _time_range, _ra_range, _dec_range, _mag_range>>

FilterFile(in_file) == FileCall("filter_file", in_file, filter_file(Reader, in_file))

ReadFile(filename) == FileCall("read_file", filename, read_file(Reader, filename))

NewLine == <<"\n">>

\* The lines of the files: the first corpus line, the line dated at MJD 0.0,
\* the line with a coordinate that does not decode, and the line with a date
\* that does not decode.
FileLines ==
  {Base(DateGood, RaInside, DecInside, MagInside) \o NewLine,
   Base(DateEpoch, RaInside, DecInside, MagInside) \o NewLine,
   Base(DateGood, RaBad, DecInside, MagInside) \o NewLine,
   Base(DateNoMonth, RaInside, DecInside, MagInside) \o NewLine}

MaxFileLen == 2

Files == UNION {[1..n -> FileLines] : n \in 0..MaxFileLen}

NextFile == Setters \/ (\E f \in Files : FilterFile(f)) \/ (\E f \in Files : ReadFile(f))

SpecFile == Init /\ [][NextFile]_vars

----------------------------------------------------------------------------
(* The reader of the unit tests: the five corpus lines and the arguments the *)
(* tests pass to the setters                                                 *)

CorpusLines == {Corpus[i] : i \in 1..5}

CorpusNameArgs == {Some(HALL2), Some(Strip(SubSeq(LineObs0000001, 1, 12)))}

CorpusObscodeArgs == {Some(Obs706), Some(ObsI41)}

\* Time('1999-06-04').mjd ... Time('2009-07-22').mjd + 0.5
CorpusTimeArgs ==
  {<<TimeVal(MJD(1999, 6, 4), 0), TimeVal(MJD(1999, 6, 6), 0)>>,
   <<TimeVal(MJD(2009, 7, 10), 0), TimeVal(MJD(2009, 7, 23), 0)>>,
   <<TimeVal(MJD(2009, 7, 22), 0), TimeVal(MJD(2009, 7, 22), Day \div 2)>>}

\* (17.0, 21.0, -25.5, -15.0), (0.0, 5.0, 0.0, 10.0), (20.0, 21.0, -18.0, -16.0)
CorpusSkyArgs ==
  {<<RaMin, RaMax, DecMin, DecMax>>,
   <<0, 5 * RaScale, 0, 10 * RaScale>>,
   <<20 * RaScale, 21 * RaScale, -18 * RaScale, -16 * RaScale>>}

\* (0.0, 25.0), (14.0, 18.0)
CorpusMagArgs == {<<0, 25 * 100>>, <<MagMin, MagMax>>}

NextCorpus ==
  \/ \E name \in CorpusNameArgs : set_name(name)
  \/ \E obscode \in CorpusObscodeArgs : set_obscode(obscode)
  \/ \E t \in CorpusTimeArgs : set_time_range(t[1], t[2])
  \/ \E a \in CorpusSkyArgs : set_skycoords_range(a[1], a[2], a[3], a[4])
  \/ \E m \in CorpusMagArgs : set_magnitude_range(m[1], m[2])
  \/ \E line \in CorpusLines : ParseAndFilterLine(line)

SpecCorpus == Init /\ [][NextCorpus]_vars

----------------------------------------------------------------------------
(* Properties.  They are stated on the fields of a line and on the          *)
(* attributes of the reader, with the inclusive reading of every range, and *)
(* compared with what the last call did.                                    *)

IsParse == call.op = "parse_and_filter_line"

Returned == IsParse /\ call.raised = ""

Rejected == Returned /\ call.ret = Rejection

Accepted == Returned /\ call.ret # Rejection

\* The fields of a line
LineDate(line) == TimeOf(Slice(line, 15, 19), Slice(line, 20, 22), Slice(line, 23, 25))

LineFrac(line) == PyFloat(Slice(line, 25, 31), FracScale)

TimeDecodes(line) == LineDate(line).ok /\ LineFrac(line).ok

LineTime(line) == TimeVal(LineDate(line).mjd, LineFrac(line).val)

LineCoord(line) == SkyCoord(Slice(line, 32, 44), Slice(line, 44, 56))

LineName(line) == Strip(Slice(line, 0, 12))

LineObscode(line) == Slice(line, 77, 80)

\* The magnitude of a line is absent when the line has at most 68 characters
\* or the character at index 67 is not '.'
MagAbsentIn(line) == Len(line) <= 68 \/ line[68] # "."

LineMag(line) == PyFloat(Slice(line, 65, 70), 2)

TimeLeq(a, b) == ~TimeLess(b, a)

\* The steps of the evaluation order, each on its own
TimeRejects(line) ==
  /\ _time_range # None
  /\ ~(TimeLeq(_time_range[1][1], LineTime(line)) /\ TimeLeq(LineTime(line), _time_range[1][2]))

InSky(c) ==
  /\ _ra_range # None => (_ra_range[1][1] <= c.ra /\ c.ra <= _ra_range[1][2])
  /\ _dec_range # None => (_dec_range[1][1] <= c.dec /\ c.dec <= _dec_range[1][2])

CoordRejects(line) == ~LineCoord(line).ok \/ ~InSky(LineCoord(line))

\* A name or obscode filter is in force when the attribute is a non-empty string
NameRejects(line) == Truthy(_name) /\ _name[1] # LineName(line)

ObscodeRejects(line) ==
  Truthy(_obscode) /\ (Len(line) < 80 \/ _obscode[1] # LineObscode(line))

EarlierRejects(line) ==
  TimeRejects(line) \/ CoordRejects(line) \/ NameRejects(line) \/ ObscodeRejects(line)

Last(seq) == seq[Len(seq)]

Ran(step) == \E i \in 1..Len(call.steps) : call.steps[i] = step

\* C1: the filters run in the order time, coordinate, name, obscode, magnitude
\* and stop at the first that rejects: the step that rejects is the last one
\* that ran, the magnitude text is parsed only when mag_range is set and the
\* four earlier steps have passed, and a line that an earlier step rejects
\* returns (None, None), whatever its magnitude text.
C1_ShortCircuit ==
  (IsParse /\ TimeDecodes(call.arg)) =>
    /\ TimeRejects(call.arg) => call.steps = <<"time">>
    /\ (~TimeRejects(call.arg) /\ CoordRejects(call.arg)) => call.steps = <<"time", "coord">>
    /\ (~TimeRejects(call.arg) /\ ~CoordRejects(call.arg) /\ NameRejects(call.arg))
         => call.steps = <<"time", "coord", "name">>
    /\ (~TimeRejects(call.arg) /\ ~CoordRejects(call.arg) /\ ~NameRejects(call.arg)
          /\ ObscodeRejects(call.arg))
         => Last(call.steps) = "obscode" /\ ~Ran("mag")
    /\ Ran("float") => (_mag_range # None /\ ~EarlierRejects(call.arg))
    /\ EarlierRejects(call.arg) => Rejected

\* A line with a magnitude text that is no number, or too short to hold one,
\* rejected by an earlier step while a magnitude filter is set
C1_Witness ==
  /\ IsParse /\ TimeDecodes(call.arg) /\ EarlierRejects(call.arg)
  /\ _mag_range # None
  /\ (Len(call.arg) <= 67 \/ (call.arg[68] = "." /\ ~LineMag(call.arg).ok))
  /\ Rejected

\* C2 as stated: with a magnitude filter set, a line that passes the earlier
\* steps and whose magnitude is absent (length <= 68, or index 67 not '.') is
\* rejected, and never raises.
C2_AbsentMagnitudeRejected ==
  (IsParse /\ TimeDecodes(call.arg) /\ ~EarlierRejects(call.arg)
     /\ _mag_range # None /\ MagAbsentIn(call.arg))
    => Rejected

\* C4 as stated: a name or an obscode set to any string, the empty string
\* included, rejects every line whose field differs from it.
C4_AnyStringFilters ==
  (Returned /\ \/ (_name # None /\ _name[1] # LineName(call.arg))
               \/ (_obscode # None /\ _obscode[1] # LineObscode(call.arg)))
    => Rejected

\* The timestamp text of a line is malformed: the date is no calendar date of
\* digits, the day fraction is no number, or the line is too short to hold
\* columns 16-31
MalformedTimestamp(line) == Len(line) < 31 \/ ~TimeDecodes(line)

MagPasses(line) ==
  _mag_range # None =>
    /\ ~MagAbsentIn(line) /\ LineMag(line).ok
    /\ _mag_range[1][1] <= LineMag(line).val /\ LineMag(line).val <= _mag_range[1][2]

OnlySky ==
  /\ _ra_range # None /\ _dec_range # None
  /\ _name = None /\ _obscode = None /\ _time_range = None /\ _mag_range = None

\* C8: every range is inclusive.  A call that returns accepts the line whenever
\* every step passes under the inclusive reading min <= value <= max, so a
\* time, RA, Dec or magnitude equal to a bound is accepted; with only the sky
\* range set and a coordinate that decodes, the line is accepted if and only if
\* ra_min <= RA <= ra_max and dec_min <= Dec <= dec_max.
C8_InclusiveBounds ==
  Returned =>
    /\ (~EarlierRejects(call.arg) /\ MagPasses(call.arg)) => Accepted
    /\ (OnlySky /\ LineCoord(call.arg).ok) =>
         (Accepted <=>
            /\ _ra_range[1][1] <= LineCoord(call.arg).ra
            /\ LineCoord(call.arg).ra <= _ra_range[1][2]
            /\ _dec_range[1][1] <= LineCoord(call.arg).dec
            /\ LineCoord(call.arg).dec <= _dec_range[1][2])

\* An accepted line whose time equals both bounds of time_range, whose RA
\* equals ra_max, whose Dec equals dec_max and whose magnitude equals the upper
\* bound of mag_range
C8_Witness ==
  /\ Accepted
  /\ _time_range # None /\ _ra_range # None /\ _dec_range # None /\ _mag_range # None
  /\ _time_range[1] = <<LineTime(call.arg), LineTime(call.arg)>>
  /\ LineCoord(call.arg).ra = _ra_range[1][2]
  /\ LineCoord(call.arg).dec = _dec_range[1][2]
  /\ LineMag(call.arg).val = _mag_range[1][2]

Config == <<_name, _obscode, _time_range, _ra_range, _dec_range, _mag_range>>

RangesOrdered ==
  /\ _time_range # None => TimeLeq(_time_range[1][1], _time_range[1][2])
  /\ _ra_range # None => _ra_range[1][1] <= _ra_range[1][2]
  /\ _dec_range # None => _dec_range[1][1] <= _dec_range[1][2]
  /\ _mag_range # None => _mag_range[1][1] <= _mag_range[1][2]

\* A call of a range setter with min > max on an axis raises and changes no
\* attribute
RejectsInverted ==
  /\ (call'.op = "set_time_range" /\ TimeLess(call'.arg[2], call'.arg[1]))
       => (call'.raised # "" /\ UNCHANGED Config)
  /\ (call'.op = "set_skycoords_range"
        /\ (call'.arg[1] > call'.arg[2] \/ call'.arg[3] > call'.arg[4]))
       => (call'.raised # "" /\ UNCHANGED Config)
  /\ (call'.op = "set_magnitude_range" /\ call'.arg[1] > call'.arg[2])
       => (call'.raised # "" /\ UNCHANGED Config)

\* C9: a range setter called with min > max on any axis raises at once and
\* leaves all attributes as they were, so every range that is set has
\* min <= max.
C9_ConfigurationErrors == []RangesOrdered /\ [][RejectsInverted]_vars

\* set_skycoords_range with a valid RA pair and an inverted Dec pair has raised,
\* and the RA range set before is still in place
C9_Witness ==
  /\ call.op = "set_skycoords_range" /\ call.raised # ""
  /\ call.arg[1] <= call.arg[2] /\ call.arg[3] > call.arg[4]
  /\ _ra_range # None /\ _ra_range[1] # <<call.arg[1], call.arg[2]>>

\* A setter that returns replaces its own axis by its arguments and leaves the
\* others; parse_and_filter_line leaves them all
SetsOwnAxis ==
  /\ call'.op = "set_name" =>
       /\ _name' = call'.arg
       /\ UNCHANGED <<_obscode, _time_range, _ra_range, _dec_range, _mag_range>>
  /\ call'.op = "set_obscode" =>
       /\ _obscode' = call'.arg
       /\ UNCHANGED <<_name, _time_range, _ra_range, _dec_range, _mag_range>>
  /\ (call'.op = "set_time_range" /\ call'.raised = "") =>
       /\ _time_range' = Some(call'.arg)
       /\ UNCHANGED <<_name, _obscode, _ra_range, _dec_range, _mag_range>>
  /\ (call'.op = "set_skycoords_range" /\ call'.raised = "") =>
       /\ _ra_range' = Some(<<call'.arg[1], call'.arg[2]>>)
       /\ _dec_range' = Some(<<call'.arg[3], call'.arg[4]>>)
       /\ UNCHANGED <<_name, _obscode, _time_range, _mag_range>>
  /\ (call'.op = "set_magnitude_range" /\ call'.raised = "") =>
       /\ _mag_range' = Some(call'.arg)
       /\ UNCHANGED <<_name, _obscode, _time_range, _ra_range, _dec_range>>
  /\ call'.op = "parse_and_filter_line" => UNCHANGED Config

\* C10: each successful setter call replaces only its own axis, by the value of
\* the call, and parse_and_filter_line changes no axis; so the filter on each
\* axis is the value of the last successful call on that axis.
C10_SettersIndependent == [][SetsOwnAxis]_vars

\* set_time_range has just replaced the time range while every other axis is
\* set
C10_Witness ==
  /\ call.op = "set_time_range" /\ call.raised = ""
  /\ _time_range = Some(call.arg)
  /\ _name # None /\ _obscode # None /\ _ra_range # None /\ _dec_range # None
  /\ _mag_range # None

\* Only the magnitude range [14, 18] is set
OnlyMagnitude14To18 ==
  Reader = [_name |-> None, _obscode |-> None, _time_range |-> None, _ra_range |-> None,
            _dec_range |-> None, _mag_range |-> Some(<<MagMin, MagMax>>)]

\* C3 as stated: with only the magnitude range [14, 18] set, of the five corpus
\* lines only Hall2 is accepted.
C3_OnlyHall2Accepted ==
  (IsParse /\ OnlyMagnitude14To18 /\ call.arg \in CorpusLines)
    => (Accepted <=> call.arg = LineHall2)

\* C3, amended: with only the magnitude range [14, 18] set, of the five corpus
\* lines Hall2 (16.6) and She001 (15.5) are accepted and the other three are
\* rejected.
C3_Hall2AndShe001Accepted ==
  (IsParse /\ OnlyMagnitude14To18 /\ call.arg \in CorpusLines)
    => /\ Returned
       /\ Accepted <=> call.arg \in {LineHall2, LineShe001}

C3_Witness == IsParse /\ OnlyMagnitude14To18 /\ call.arg = LineShe001 /\ Accepted

\* parse_and_filter_line accepts the line: it returns a coordinate and a time
AcceptedLine(line) ==
  /\ parse_and_filter_line(Reader, line).raised = ""
  /\ parse_and_filter_line(Reader, line).ret # Rejection

\* C7 as stated: filter_file writes exactly the lines that
\* parse_and_filter_line accepts, in order and unchanged, and read_file
\* returns the (coordinate, time) pair of exactly those lines.
C7_FilesKeepAcceptedLines ==
  /\ (call.op = "filter_file" /\ call.raised = "")
       => call.ret = SelectSeq(call.arg, AcceptedLine)
  /\ (call.op = "read_file" /\ call.raised = "")
       => /\ Len(call.ret) = Len(SelectSeq(call.arg, AcceptedLine))
          /\ \A i \in 1..Len(call.ret) :
               call.ret[i] = parse_and_filter_line(Reader, SelectSeq(call.arg, AcceptedLine)[i]).ret

====
